---- MODULE Spec2Model ----
(***************************************************************************)
(* A model of slack2discord/message.py: ParsedMessage, MessageLink and     *)
(* MessageFile.  A ParsedMessage is built by add_link / add_file, an       *)
(* external downloader fills in each file's local_filename, and the two    *)
(* conversions get_discord_send_kwargs / get_discord_add_files_args turn   *)
(* it into the arguments of the Discord client's send and add_files.       *)
(*                                                                         *)
(* Python values are tagged records, so that None, a str and a list are    *)
(* three different values and "" is a str that is not None:                *)
(*   None          [type |-> "NoneType"]                                   *)
(*   a str         [type |-> "str",  chars |-> <<characters>>]             *)
(*   a list        [type |-> "list", items |-> <<elements>>]               *)
(* A dict is a function from the keys it holds to their values.            *)
(***************************************************************************)
EXTENDS Integers, Sequences, FiniteSets, TLC

VARIABLES
    text,        \* ParsedMessage.text
    links,       \* ParsedMessage.links: sequence of MessageLink
    files,       \* ParsedMessage.files: sequence of MessageFile
    ret,         \* the operation that ran last and the value it returned
    log,         \* the log records the last operation emitted
    link_dicts,  \* history: the link_dict of every add_link call, in call order
    file_dicts   \* history: the file_dict of every add_file call, in call order

vars == <<text, links, files, ret, log, link_dicts, file_dicts>>

----------------------------------------------------------------------------
(* Python values *)

None == [type |-> "NoneType"]

Str(chars) == [type |-> "str", chars |-> chars]

List(items) == [type |-> "list", items |-> items]

\* Python truth value of an optional str: None and '' are false.
Truthy(val) == val # None /\ val # Str(<<>>)

\* dict.get(key): the value of the key, None when the key is missing.
Get(dict, key) == IF key \in DOMAIN dict THEN dict[key] ELSE None

Min(a, b) == IF a <= b THEN a ELSE b

MAX_DISCORD_EMBEDS == 10

----------------------------------------------------------------------------
(* SlackParser.unescape_url, the URL normalizer of slack2discord/parser.py: *)
(* HTML-entity decoding of the escaped ampersand, None for None.            *)

EscapedAmp == <<"&", "a", "m", "p", ";">>

RECURSIVE UnescapeChars(_)
UnescapeChars(s) ==
    IF Len(s) = 0 THEN <<>>
    ELSE IF Len(s) >= 5 /\ SubSeq(s, 1, 5) = EscapedAmp
         THEN <<"&">> \o UnescapeChars(SubSeq(s, 6, Len(s)))
         ELSE <<Head(s)>> \o UnescapeChars(Tail(s))

unescape_url(url) == IF url = None THEN None ELSE Str(UnescapeChars(url.chars))

----------------------------------------------------------------------------
(* The data holders *)

MessageLink(title, title_link, txt, service_name, service_icon, image_url, thumb_url) ==
    [title |-> title, title_link |-> title_link, text |-> txt,
     service_name |-> service_name, service_icon |-> service_icon,
     image_url |-> image_url, thumb_url |-> thumb_url]

\* Variant: the record is built with its local_filename already filled in.
MessageFile_Prefilled(id, name, url) ==
    [id |-> id, name |-> name, url |-> url, local_filename |-> url]

MessageFile(id, name, url) ==
    [id |-> id, name |-> name, url |-> url, local_filename |-> None]

\* ParsedMessage.str_or_none: the text None for None, the quoted value otherwise.
str_or_none(val) ==
    IF val = None THEN <<"N", "o", "n", "e">>
    ELSE <<"'">> \o val.chars \o <<"'">>

\* MessageLink.__repr__, as the sequence of its rendered fields.
LinkRepr(link) ==
    <<str_or_none(link.title), str_or_none(link.title_link), str_or_none(link.text),
      str_or_none(link.service_name), str_or_none(link.service_icon),
      str_or_none(link.image_url), str_or_none(link.thumb_url)>>

\* MessageFile.__repr__: id, name and url are rendered as they are, only
\* local_filename goes through str_or_none.
FileRepr(file) ==
    <<file.id, file.name, file.url, str_or_none(file.local_filename)>>

----------------------------------------------------------------------------
(* add_link / add_file *)

\* Variant: image_url is stored as given, not normalized.
LinkOfDict_RawImage(link_dict) ==
    MessageLink(Get(link_dict, "title"),
                unescape_url(Get(link_dict, "title_link")),
                Get(link_dict, "text"),
                Get(link_dict, "service_name"),
                unescape_url(Get(link_dict, "service_icon")),
                Get(link_dict, "image_url"),
                unescape_url(Get(link_dict, "thumb_url")))

\* The MessageLink add_link builds from its link_dict.
LinkOfDict(link_dict) ==
    MessageLink(Get(link_dict, "title"),
                unescape_url(Get(link_dict, "title_link")),
                Get(link_dict, "text"),
                Get(link_dict, "service_name"),
                unescape_url(Get(link_dict, "service_icon")),
                unescape_url(Get(link_dict, "image_url")),
                unescape_url(Get(link_dict, "thumb_url")))

\* The MessageFile add_file builds from its file_dict.
FileOfDict(file_dict) ==
    MessageFile(Get(file_dict, "id"),
                Get(file_dict, "name"),
                unescape_url(Get(file_dict, "url_private")))

\* logger.level is read at each call: "DEBUG" or anything else.
LoggerLevels == {"DEBUG", "NOTSET"}

\* Variant: the new link is put in front of the earlier ones.
add_link_Prepend(link_dict, level) ==
    LET link == LinkOfDict(link_dict) IN
    /\ log' = IF level = "DEBUG"
              THEN <<[level |-> "DEBUG", msg |-> LinkRepr(link)]>>
              ELSE <<[level |-> "INFO", msg |-> <<str_or_none(link.title_link)>>]>>
    /\ links' = <<link>> \o links
    /\ link_dicts' = Append(link_dicts, link_dict)
    /\ ret' = [op |-> "add_link", value |-> None]
    /\ UNCHANGED <<text, files, file_dicts>>

add_link(link_dict, level) ==
    LET link == LinkOfDict(link_dict) IN
    /\ log' = IF level = "DEBUG"
              THEN <<[level |-> "DEBUG", msg |-> LinkRepr(link)]>>
              ELSE <<[level |-> "INFO", msg |-> <<str_or_none(link.title_link)>>]>>
    /\ links' = Append(links, link)
    /\ link_dicts' = Append(link_dicts, link_dict)
    /\ ret' = [op |-> "add_link", value |-> None]
    /\ UNCHANGED <<text, files, file_dicts>>

add_file(file_dict, level) ==
    LET file == FileOfDict(file_dict) IN
    /\ log' = IF level = "DEBUG"
              THEN <<[level |-> "DEBUG", msg |-> FileRepr(file)]>>
              ELSE <<[level |-> "INFO", msg |-> <<file.name>>]>>
    /\ files' = Append(files, file)
    /\ file_dicts' = Append(file_dicts, file_dict)
    /\ ret' = [op |-> "add_file", value |-> None]
    /\ UNCHANGED <<text, links, link_dicts>>

----------------------------------------------------------------------------
(* get_discord_send_kwargs *)

\* Variant: the description is taken from the title.
DiscordEmbed_TitleTwice(title, url, description) ==
    [title |-> title, url |-> url, description |-> title]

\* discord.Embed(title=, url=, description=): the arguments it is built from.
DiscordEmbed(title, url, description) ==
    [title |-> title, url |-> url, description |-> description]

\* Variant: the sub-blocks are set when the field is not None, '' included.
EmbedOfLink_NotNone(link) ==
    LET embed == DiscordEmbed(link.title, link.title_link, link.text)
        author == IF link.service_name # None \/ link.service_icon # None
                  THEN [author |-> [name |-> link.service_name,
                                    icon_url |-> link.service_icon]]
                  ELSE <<>>
        image == IF link.image_url # None
                 THEN [image |-> [url |-> link.image_url]]
                 ELSE <<>>
        thumbnail == IF link.thumb_url # None
                     THEN [thumbnail |-> [url |-> link.thumb_url]]
                     ELSE <<>>
    IN  embed @@ author @@ image @@ thumbnail

\* The embed built from one link; author, image and thumbnail are keys of the
\* embed only when set_author, set_image, set_thumbnail were called.
EmbedOfLink(link) ==
    LET embed == DiscordEmbed(link.title, link.title_link, link.text)
        author == IF Truthy(link.service_name) \/ Truthy(link.service_icon)
                  THEN [author |-> [name |-> link.service_name,
                                    icon_url |-> link.service_icon]]
                  ELSE <<>>
        image == IF Truthy(link.image_url)
                 THEN [image |-> [url |-> link.image_url]]
                 ELSE <<>>
        thumbnail == IF Truthy(link.thumb_url)
                     THEN [thumbnail |-> [url |-> link.thumb_url]]
                     ELSE <<>>
    IN  embed @@ author @@ image @@ thumbnail

\* Variant: the last MAX_DISCORD_EMBEDS links are kept.
RetainedLinks_Last(ls) ==
    SubSeq(ls, Len(ls) - Min(Len(ls), MAX_DISCORD_EMBEDS) + 1, Len(ls))

\* self.links[:min(len(self.links), MAX_DISCORD_EMBEDS)]
RetainedLinks(ls) == SubSeq(ls, 1, Min(Len(ls), MAX_DISCORD_EMBEDS))

\* Variant: no links give an empty list.
Embeds_EmptyList(ls) ==
    List([i \in 1..Len(RetainedLinks(ls)) |-> EmbedOfLink(RetainedLinks(ls)[i])])

Embeds(ls) ==
    IF Len(ls) > 0
    THEN List([i \in 1..Len(RetainedLinks(ls)) |-> EmbedOfLink(RetainedLinks(ls)[i])])
    ELSE None

SendKwargs(txt, ls) == [content |-> txt, embeds |-> Embeds(ls)]

SendLog(ls) ==
    IF Len(ls) > MAX_DISCORD_EMBEDS
    THEN <<[level |-> "WARNING", msg |-> <<Len(ls), MAX_DISCORD_EMBEDS>>]>>
    ELSE <<>>

\* Variant: the truncation is done on self.links itself.
get_discord_send_kwargs_InPlace ==
    /\ log' = SendLog(links)
    /\ links' = RetainedLinks(links)
    /\ ret' = [op |-> "get_discord_send_kwargs", value |-> SendKwargs(text, links)]
    /\ UNCHANGED <<text, files, link_dicts, file_dicts>>

get_discord_send_kwargs ==
    /\ log' = SendLog(links)
    /\ ret' = [op |-> "get_discord_send_kwargs", value |-> SendKwargs(text, links)]
    /\ UNCHANGED <<text, links, files, link_dicts, file_dicts>>

----------------------------------------------------------------------------
(* get_discord_add_files_args *)

\* discord.File(fp, filename=): the arguments it is built from.
DiscordFile(fp, filename) == [fp |-> fp, filename |-> filename]

\* Variant: the file to upload is taken from the remote url.
AddFilesArgs_Url(fs) ==
    IF Len(fs) = 0
    THEN None
    ELSE List([i \in 1..Len(fs) |-> DiscordFile(fs[i].url, fs[i].name)])

HasLocalFilename(file) == file.local_filename # None

\* Variant: files that were not downloaded are left out.
AddFilesArgs_SkipUnset(fs) ==
    IF Len(fs) = 0
    THEN None
    ELSE List([i \in 1..Len(SelectSeq(fs, HasLocalFilename)) |->
                 DiscordFile(SelectSeq(fs, HasLocalFilename)[i].local_filename,
                             SelectSeq(fs, HasLocalFilename)[i].name)])

AddFilesArgs(fs) ==
    IF Len(fs) = 0
    THEN None
    ELSE List([i \in 1..Len(fs) |-> DiscordFile(fs[i].local_filename, fs[i].name)])

get_discord_add_files_args ==
    /\ log' = <<>>
    /\ ret' = [op |-> "get_discord_add_files_args", value |-> AddFilesArgs(files)]
    /\ UNCHANGED <<text, links, files, link_dicts, file_dicts>>

----------------------------------------------------------------------------
(* The external downloader: sets the local_filename of one file, once. *)

download(i, path) ==
    /\ i \in 1..Len(files)
    /\ files[i].local_filename = None
    /\ files' = [files EXCEPT ![i].local_filename = path]
    /\ ret' = [op |-> "download", value |-> None]
    /\ log' = <<>>
    /\ UNCHANGED <<text, links, link_dicts, file_dicts>>

----------------------------------------------------------------------------
(* The inputs the operations are called with *)

UrlEscaped == Str(<<"u", "&", "a", "m", "p", ";", "v">>)

UrlPlain == Str(<<"w">>)

Texts == {Str(<<>>), Str(<<"h", "i">>)}

LinkDicts ==
    { <<>>,
      [title |-> Str(<<"T">>), title_link |-> UrlEscaped],
      [title |-> Str(<<"N">>), service_name |-> Str(<<"S">>)],
      [text |-> Str(<<"d">>), service_icon |-> UrlEscaped, image_url |-> UrlPlain],
      [title |-> Str(<<"B">>), service_name |-> Str(<<>>), service_icon |-> None,
       image_url |-> Str(<<>>), thumb_url |-> Str(<<>>)],
      [title |-> Str(<<"A">>), title_link |-> UrlPlain, text |-> Str(<<"x">>),
       service_name |-> Str(<<"S">>), service_icon |-> UrlPlain,
       image_url |-> UrlEscaped, thumb_url |-> UrlPlain] }

FileDicts ==
    { [name |-> Str(<<"n">>)],
      [id |-> Str(<<"F">>), name |-> Str(<<"m">>), url_private |-> UrlEscaped] }

LocalPaths == {Str(<<"/", "f">>)}

\* The inputs of the long-message specifications: two links that differ in
\* every field an embed shows, or one link only.
LinkDictsCap ==
    { [title |-> Str(<<"T">>), title_link |-> UrlEscaped],
      [text |-> Str(<<"d">>), service_icon |-> UrlEscaped, image_url |-> UrlPlain] }

LinkDictsLong ==
    { [title |-> Str(<<"T">>), title_link |-> UrlEscaped, thumb_url |-> UrlPlain] }

MaxLinks == 2

MaxFiles == 2

MaxLinksCap == 12

----------------------------------------------------------------------------
(* The specifications *)

\* ParsedMessage.__init__(text)
Init ==
    /\ text \in Texts
    /\ links = <<>>
    /\ files = <<>>
    /\ ret = [op |-> "__init__", value |-> None]
    /\ log = <<>>
    /\ link_dicts = <<>>
    /\ file_dicts = <<>>

AddLink ==
    \E link_dict \in LinkDicts, level \in LoggerLevels :
        Len(links) < MaxLinks /\ add_link(link_dict, level)

AddFile ==
    \E file_dict \in FileDicts, level \in LoggerLevels :
        Len(files) < MaxFiles /\ add_file(file_dict, level)

Download == \E i \in 1..Len(files), path \in LocalPaths : download(i, path)

Next ==
    \/ AddLink
    \/ AddFile
    \/ Download
    \/ get_discord_send_kwargs
    \/ get_discord_add_files_args

Spec == Init /\ [][Next]_vars

\* Messages long enough to exceed MAX_DISCORD_EMBEDS, links only.
AddLinkCap ==
    \E link_dict \in LinkDictsCap, level \in LoggerLevels :
        Len(links) < MaxLinksCap /\ add_link(link_dict, level)

NextCap ==
    \/ AddLinkCap
    \/ get_discord_send_kwargs
    \/ get_discord_add_files_args

SpecCap == Init /\ [][NextCap]_vars

\* Messages long enough to exceed MAX_DISCORD_EMBEDS, with files.
AddLinkLong ==
    \E link_dict \in LinkDictsLong, level \in LoggerLevels :
        Len(links) < MaxLinksCap /\ add_link(link_dict, level)

NextLong ==
    \/ AddLinkLong
    \/ AddFile
    \/ Download
    \/ get_discord_send_kwargs
    \/ get_discord_add_files_args

SpecLong == Init /\ [][NextLong]_vars

----------------------------------------------------------------------------
(* The properties *)

Sent == ret.op = "get_discord_send_kwargs"

FilesArgs == ret.op = "get_discord_add_files_args"

\* A present value: the key was given and its value is not None.
Present(val) == val # None

\* A present value that is not the empty string.
NonEmpty(val) == val # None /\ val # Str(<<>>)

\* C1: after n >= 1 add_link calls, get_discord_send_kwargs returns exactly
\* min(n, 10) embeds, the i-th one built from the i-th link added; when
\* n > 10 the rest is dropped, a warning is logged and a value is returned.
C1_FirstTenEmbeds ==
    (Sent /\ Len(link_dicts) >= 1) =>
        /\ ret.value.embeds # None
        /\ Len(ret.value.embeds.items) = Min(Len(link_dicts), 10)
        /\ \A i \in 1..Len(ret.value.embeds.items) :
              /\ ret.value.embeds.items[i].title = Get(link_dicts[i], "title")
              /\ ret.value.embeds.items[i].description = Get(link_dicts[i], "text")
              /\ ("image" \in DOMAIN ret.value.embeds.items[i])
                    = ("image_url" \in DOMAIN link_dicts[i])
        /\ (Len(link_dicts) > 10 =>
               \E r \in 1..Len(log) : log[r].level = "WARNING")

C1_Witness ==
    /\ Sent
    /\ Len(link_dicts) = 12
    /\ Len(ret.value.embeds.items) = 10
    /\ link_dicts[10] # link_dicts[11]
    /\ link_dicts[1] # link_dicts[3]
    /\ \E r \in 1..Len(log) : log[r].level = "WARNING"

\* C2: get_discord_send_kwargs returns embeds = None exactly when no link was
\* added; with at least one link it returns a non-empty list.
C2_EmbedsNoneIffNoLinks ==
    Sent =>
        /\ (ret.value.embeds = None) = (Len(link_dicts) = 0)
        /\ (Len(link_dicts) > 0 =>
               /\ ret.value.embeds.type = "list"
               /\ Len(ret.value.embeds.items) > 0)

C2_Witness ==
    /\ Sent
    /\ Len(link_dicts) > 0
    /\ Len(file_dicts) > 0
    /\ ret.value.embeds # None

\* C3: get_discord_add_files_args returns None exactly when no file was
\* added; otherwise one descriptor per file, in append order, the i-th one
\* pairing the i-th file's local_filename with the i-th file's name.
C3_FilesArgsPerFile ==
    FilesArgs =>
        /\ (ret.value = None) = (Len(file_dicts) = 0)
        /\ (Len(file_dicts) > 0 =>
               /\ Len(ret.value.items) = Len(file_dicts)
               /\ \A i \in 1..Len(file_dicts) :
                     /\ ret.value.items[i].fp = files[i].local_filename
                     /\ ret.value.items[i].filename = files[i].name
                     /\ ret.value.items[i].filename = Get(file_dicts[i], "name"))

C3_Witness ==
    /\ FilesArgs
    /\ Len(file_dicts) = 2
    /\ files[1].name # files[2].name
    /\ files[1].local_filename # None
    /\ Len(ret.value.items) = 2

\* C4: links holds one record per add_link call and files one record per
\* add_file call, in call order; each call appends one record at the end of
\* its own sequence and leaves the earlier records and the other sequence as
\* they were.
C4_AppendOnly ==
    /\ [](/\ Len(links) = Len(link_dicts)
          /\ Len(files) = Len(file_dicts)
          /\ \A i \in 1..Len(links) :
                /\ links[i].title = Get(link_dicts[i], "title")
                /\ links[i].text = Get(link_dicts[i], "text")
                /\ links[i].service_name = Get(link_dicts[i], "service_name")
          /\ \A i \in 1..Len(files) :
                /\ files[i].id = Get(file_dicts[i], "id")
                /\ files[i].name = Get(file_dicts[i], "name"))
    /\ [][/\ ret'.op = "add_link" =>
                /\ Len(links') = Len(links) + 1
                /\ SubSeq(links', 1, Len(links)) = links
                /\ files' = files
          /\ ret'.op = "add_file" =>
                /\ Len(files') = Len(files) + 1
                /\ SubSeq(files', 1, Len(files)) = files
                /\ links' = links]_vars

C4_Witness ==
    /\ Len(links) = 2
    /\ Len(files) = 2
    /\ links[1] # links[2]
    /\ files[1] # files[2]
    /\ ret.op = "add_link"

\* C5, as stated: an embed has an author sub-block exactly when the link's
\* service_name or service_icon is present, an image exactly when image_url
\* is present, a thumbnail exactly when thumb_url is present.
C5_SubBlocksIffPresent ==
    Sent =>
        \A i \in 1..Min(Len(links), 10) :
            /\ ("author" \in DOMAIN ret.value.embeds.items[i])
                  = (Present(links[i].service_name) \/ Present(links[i].service_icon))
            /\ ("image" \in DOMAIN ret.value.embeds.items[i])
                  = Present(links[i].image_url)
            /\ ("thumbnail" \in DOMAIN ret.value.embeds.items[i])
                  = Present(links[i].thumb_url)

\* C5, amended: an embed has an author sub-block exactly when the link's
\* service_name or service_icon is present and not the empty string, an image
\* exactly when image_url is present and not empty, a thumbnail exactly when
\* thumb_url is present and not empty; a link with only title and title_link
\* yields none of the three.
C5_SubBlocksIffNonEmpty ==
    Sent =>
        \A i \in 1..Min(Len(links), 10) :
            /\ ("author" \in DOMAIN ret.value.embeds.items[i])
                  = (NonEmpty(links[i].service_name) \/ NonEmpty(links[i].service_icon))
            /\ ("image" \in DOMAIN ret.value.embeds.items[i])
                  = NonEmpty(links[i].image_url)
            /\ ("thumbnail" \in DOMAIN ret.value.embeds.items[i])
                  = NonEmpty(links[i].thumb_url)
            /\ DOMAIN link_dicts[i] = {"title", "title_link"} =>
                  DOMAIN ret.value.embeds.items[i] = {"title", "url", "description"}

C5_Witness ==
    /\ Sent
    /\ Len(links) = 2
    /\ links[1].service_name = Str(<<>>)
    /\ links[1].image_url = Str(<<>>)
    /\ DOMAIN ret.value.embeds.items[1] = {"title", "url", "description"}
    /\ DOMAIN ret.value.embeds.items[2]
          = {"title", "url", "description", "author", "image", "thumbnail"}

\* C6, as stated: the embed's title, url and description are the link's title,
\* title_link and text; an author sub-block carries service_name as name and
\* service_icon as icon; a link with service_name set (present) and
\* service_icon absent yields an author sub-block whose icon is None.
C6_FieldsAndAuthor ==
    Sent =>
        \A i \in 1..Min(Len(links), 10) :
            /\ ret.value.embeds.items[i].title = links[i].title
            /\ ret.value.embeds.items[i].url = links[i].title_link
            /\ ret.value.embeds.items[i].description = links[i].text
            /\ "author" \in DOMAIN ret.value.embeds.items[i] =>
                  /\ ret.value.embeds.items[i].author.name = links[i].service_name
                  /\ ret.value.embeds.items[i].author.icon_url = links[i].service_icon
            /\ (Present(links[i].service_name) /\ links[i].service_icon = None) =>
                  /\ "author" \in DOMAIN ret.value.embeds.items[i]
                  /\ ret.value.embeds.items[i].author.icon_url = None

\* C6, amended: the same, for a link whose service_name is set to a string
\* that is not empty.
C6_FieldsAndAuthorNonEmpty ==
    Sent =>
        \A i \in 1..Min(Len(links), 10) :
            /\ ret.value.embeds.items[i].title = links[i].title
            /\ ret.value.embeds.items[i].url = links[i].title_link
            /\ ret.value.embeds.items[i].description = links[i].text
            /\ "author" \in DOMAIN ret.value.embeds.items[i] =>
                  /\ ret.value.embeds.items[i].author.name = links[i].service_name
                  /\ ret.value.embeds.items[i].author.icon_url = links[i].service_icon
            /\ (NonEmpty(links[i].service_name) /\ links[i].service_icon = None) =>
                  /\ "author" \in DOMAIN ret.value.embeds.items[i]
                  /\ ret.value.embeds.items[i].author.icon_url = None

C6_Witness ==
    /\ Sent
    /\ Len(links) = 2
    /\ NonEmpty(links[1].service_name)
    /\ links[1].service_icon = None
    /\ ret.value.embeds.items[1].author.icon_url = None
    /\ links[2].text # None
    /\ links[2].title # links[2].text
    /\ ret.value.embeds.items[2].description = links[2].text

\* C7: add_link stores title_link, service_icon, image_url and thumb_url as
\* unescape_url of the value given, and title, text and service_name as given;
\* add_file stores url as unescape_url of url_private, and id and name as
\* given; the field of a key missing from the input is None, the fields that
\* go through unescape_url included.
C7_StoredFields ==
    /\ \A i \in 1..Len(links) :
          /\ links[i].title = Get(link_dicts[i], "title")
          /\ links[i].text = Get(link_dicts[i], "text")
          /\ links[i].service_name = Get(link_dicts[i], "service_name")
          /\ links[i].title_link = unescape_url(Get(link_dicts[i], "title_link"))
          /\ links[i].service_icon = unescape_url(Get(link_dicts[i], "service_icon"))
          /\ links[i].image_url = unescape_url(Get(link_dicts[i], "image_url"))
          /\ links[i].thumb_url = unescape_url(Get(link_dicts[i], "thumb_url"))
          /\ \A key \in {"title", "title_link", "text", "service_name",
                         "service_icon", "image_url", "thumb_url"} \ DOMAIN link_dicts[i] :
                links[i][key] = None
    /\ \A i \in 1..Len(files) :
          /\ files[i].id = Get(file_dicts[i], "id")
          /\ files[i].name = Get(file_dicts[i], "name")
          /\ files[i].url = unescape_url(Get(file_dicts[i], "url_private"))
          /\ "id" \notin DOMAIN file_dicts[i] => files[i].id = None
          /\ "name" \notin DOMAIN file_dicts[i] => files[i].name = None
          /\ "url_private" \notin DOMAIN file_dicts[i] => files[i].url = None

C7_Witness ==
    /\ Len(links) = 2
    /\ Get(link_dicts[1], "title_link") = UrlEscaped
    /\ links[1].title_link = Str(<<"u", "&", "v">>)
    /\ "image_url" \notin DOMAIN link_dicts[1]
    /\ links[1].image_url = None
    /\ Get(link_dicts[2], "image_url") = UrlEscaped
    /\ links[2].image_url = Str(<<"u", "&", "v">>)
    /\ Len(files) = 2
    /\ Get(file_dicts[1], "url_private") = UrlEscaped
    /\ files[1].url = Str(<<"u", "&", "v">>)
    /\ "url_private" \notin DOMAIN file_dicts[2]
    /\ files[2].url = None

\* C8: a file record appended by add_file has local_filename None, and no
\* operation other than the external downloader (add_link, add_file,
\* get_discord_send_kwargs, get_discord_add_files_args) changes the
\* local_filename, id, name or url of a file already recorded.
C8_LocalFilenameUnsetByCore ==
    [][/\ ret'.op = "add_file" =>
             files'[Len(files')].local_filename = None
       /\ ret'.op # "download" =>
             /\ Len(files') >= Len(files)
             /\ \A i \in 1..Len(files) :
                   /\ files'[i].local_filename = files[i].local_filename
                   /\ files'[i].id = files[i].id
                   /\ files'[i].name = files[i].name
                   /\ files'[i].url = files[i].url]_vars

C8_Witness ==
    /\ FilesArgs
    /\ Len(links) > 0
    /\ Len(files) = 2
    /\ files[1].local_filename # None
    /\ files[2].local_filename = None
    /\ files[2].url # None

\* C9: called while some file's local_filename is still None,
\* get_discord_add_files_args does not skip that file and returns a value: one
\* descriptor per file, the one of an unset file carrying None as its path.
C9_UnsetPathPassedThrough ==
    (FilesArgs /\ \E j \in 1..Len(files) : files[j].local_filename = None) =>
        /\ ret.value # None
        /\ ret.value.type = "list"
        /\ Len(ret.value.items) = Len(files)
        /\ \A i \in 1..Len(files) :
              /\ files[i].local_filename = None => ret.value.items[i].fp = None
              /\ files[i].local_filename # None =>
                    ret.value.items[i].fp = files[i].local_filename
              /\ ret.value.items[i].filename = files[i].name

C9_Witness ==
    /\ FilesArgs
    /\ Len(files) = 2
    /\ files[1].local_filename = None
    /\ files[2].local_filename # None
    /\ ret.value.items[1].fp = None
    /\ ret.value.items[2].fp # None

\* C10: get_discord_send_kwargs and get_discord_add_files_args leave text,
\* links and files as they were, also with more than 10 links recorded; the
\* content returned is the text of the message, the text never changes, and
\* the same call repeated in the same state returns an equal value.
C10_ConversionsReadOnly ==
    /\ [](Sent => ret.value.content = text)
    /\ [][/\ text' = text
          /\ ret'.op \in {"get_discord_send_kwargs", "get_discord_add_files_args"} =>
                /\ links' = links
                /\ files' = files
                /\ ret.op = ret'.op => ret'.value = ret.value]_vars

C10_Witness ==
    /\ Sent
    /\ Len(links) = 12
    /\ Len(ret.value.embeds.items) = 10
    /\ Len(files) = 2
    /\ ret.value.content = Str(<<"h", "i">>)

====
